---------------------------- MODULE Spec2Model ----------------------------
(* Model of cli/src/opts.rs: ResolverOptions::to_resolver and              *)
(* ContextLoaderOptions::to_context_loader, statement by statement.        *)
EXTENDS Integers, Sequences, FiniteSets, TLC

VARIABLES
    rpc,              \* position in the resolver scenario
    ropts,            \* the ResolverOptions value (self)
    resolvers,        \* the local `resolvers` vector of to_resolver
    chain,            \* the SeriesResolver returned by to_resolver
    cpc,              \* position in the context-loader scenario
    copts,            \* the ContextLoaderOptions value (self)
    context_loader,   \* the local `context_loader` (base layer, then result)
    context_map,      \* the local `context_map` HashMap
    idx,              \* position of the iterator over additional_contexts.0
    iri,              \* the local `iri` of the current iteration
    doc_body,         \* the local `doc_body` of the current iteration
    doc,              \* the local `doc` of the current iteration
    reads,            \* history: entry positions whose file was handed to read_to_string
    returned,         \* the value returned to the caller, if any
    panic             \* the panic raised by unwrap(), if any

rvars == <<rpc, ropts, resolvers, chain>>
cvars == <<cpc, copts, context_loader, context_map, idx, iri, doc_body, doc,
           reads, returned, panic>>
vars == <<rpc, ropts, resolvers, chain, cpc, copts, context_loader,
          context_map, idx, iri, doc_body, doc, reads, returned, panic>>

-----------------------------------------------------------------------------
(* Option<T>, Result<T, E>                                                 *)

None == [some |-> FALSE]

Some(x) == [some |-> TRUE, val |-> x]

Ok(x) == [ok |-> TRUE, val |-> x]

Err(e) == [ok |-> FALSE, err |-> e]

Option(S) == {None} \cup {Some(x) : x \in S}

-----------------------------------------------------------------------------
(* Strings are sequences of characters.                                    *)

Alpha == {"a", "d", "h", "x", "y", "v", "w"}

\* the strings a deployer may give as -r / -R
Endpoints ==
    { <<"h", ":", "a">>, <<"h", ":", "b">>, <<"a">>, <<>>, <<"h", ":", " ">> }

-----------------------------------------------------------------------------
(* ResolverOptions                                                         *)

\* clap `parse(from_str = HTTPDIDResolver::new)`: an infallible &str -> T
HTTPDIDResolver_new(s) == [endpoint |-> s]

ResolverOptions_default == [did_resolver |-> None, did_resolver_override |-> None]

\* DID_METHODS.to_resolver()
Registry == [kind |-> "registry"]

\* a borrow of one of self's HTTPDIDResolver fields
Borrow(field, r) == [kind |-> "http", field |-> field, resolver |-> r]

\* Vec::push
VecPush(v, x) == Append(v, x)

\* mutant: insert at the end
VecInsert0_back(v, x) == Append(v, x)

\* Vec::insert(0, x)
VecInsert0(v, x) == <<x>> \o v

RInit ==
    /\ rpc = "args"
    /\ ropts = ResolverOptions_default
    /\ resolvers = <<>>
    /\ chain = None

\* the derived StructOpt parser fills the two optional fields
ParseResolverOptions ==
    /\ rpc = "args"
    /\ \E r \in Option(Endpoints), o \in Option(Endpoints) :
          ropts' = [did_resolver |->
                        IF r.some THEN Some(HTTPDIDResolver_new(r.val)) ELSE None,
                    did_resolver_override |->
                        IF o.some THEN Some(HTTPDIDResolver_new(o.val)) ELSE None]
    /\ rpc' = "l19"
    /\ UNCHANGED <<resolvers, chain>>
    /\ UNCHANGED cvars

\* let mut resolvers = vec![DID_METHODS.to_resolver()];
NewResolvers ==
    /\ rpc = "l19"
    /\ resolvers' = <<Registry>>
    /\ rpc' = "l20"
    /\ UNCHANGED <<ropts, chain>>
    /\ UNCHANGED cvars

\* if let Some(r) = &self.did_resolver { resolvers.push(r) }
PushFallback ==
    /\ rpc = "l20"
    /\ resolvers' = IF ropts.did_resolver.some
                    THEN VecPush(resolvers, Borrow("did_resolver", ropts.did_resolver.val))
                    ELSE resolvers
    /\ rpc' = "l23"
    /\ UNCHANGED <<ropts, chain>>
    /\ UNCHANGED cvars

\* if let Some(r) = &self.did_resolver_override { resolvers.insert(0, r) }
InsertOverride ==
    /\ rpc = "l23"
    /\ resolvers' = IF ropts.did_resolver_override.some
                    THEN VecInsert0(resolvers,
                             Borrow("did_resolver_override", ropts.did_resolver_override.val))
                    ELSE resolvers
    /\ rpc' = "l26"
    /\ UNCHANGED <<ropts, chain>>
    /\ UNCHANGED cvars

\* SeriesResolver { resolvers }
ReturnSeriesResolver ==
    /\ rpc = "l26"
    /\ chain' = Some([resolvers |-> resolvers])
    /\ rpc' = "done"
    /\ UNCHANGED <<ropts, resolvers>>
    /\ UNCHANGED cvars

-----------------------------------------------------------------------------
(* ContextLoaderOptions                                                    *)

\* largest additional-contexts list explored
MaxEntries == 2

\* identifiers a deployer may write in the "iri" field
CtxIris == { <<"a", ":", "x">>, <<"a", ":", "y">>, <<"d", ":", "v">>, <<"x">> }

Paths == {"p1", "p2", "p3", "p4"}

\* the files on disk: p1, p2 hold JSON, p3 holds a truncated body, p4 is missing
FS ==
    [p \in Paths |->
        CASE p = "p1" -> Some(<<"{", "}">>)
          [] p = "p2" -> Some(<<" ", "[", "]">>)
          [] p = "p3" -> Some(<<"{">>)
          [] OTHER    -> None]

\* struct ContextLoaderEntry { iri, doc_body_file_path }
ContextLoaderEntry == [iri : CtxIris, doc_body_file_path : Paths]

\* struct AdditionalContexts(Vec<ContextLoaderEntry>)
AdditionalContexts == UNION {[1..n -> ContextLoaderEntry] : n \in 0..MaxEntries}

ContextLoaderOptions ==
    [disable_default_contexts : BOOLEAN,
     additional_contexts : Option(AdditionalContexts)]

ContextLoaderOptions_default ==
    [disable_default_contexts |-> FALSE, additional_contexts |-> None]

\* position of the first ":" of s, 0 when there is none
RECURSIVE FirstColon(_, _)
FirstColon(s, k) ==
    IF k > Len(s) THEN 0
    ELSE IF s[k] = ":" THEN k
    ELSE FirstColon(s, k + 1)

\* iref::Iri::new: scheme ":" rest, a scheme of letters, no blank
Iri_new(s) ==
    LET k == FirstColon(s, 1) IN
    IF /\ k >= 2
       /\ \A j \in 1..(k - 1) : s[j] \in Alpha
       /\ \A j \in (k + 1)..Len(s) : s[j] # " "
    THEN Ok([scheme |-> SubSeq(s, 1, k - 1), rest |-> SubSeq(s, k + 1, Len(s))])
    ELSE Err("invalid IRI")

\* mutant: the file is reported missing only when it is empty
read_to_string_lenient(p) ==
    IF FS[p].some THEN Ok(FS[p].val) ELSE Ok(<<>>)

\* std::fs::read_to_string
read_to_string(p) ==
    IF FS[p].some THEN Ok(FS[p].val) ELSE Err("No such file or directory")

IsBlank(c) == c = " "

StripBlanks(b) == SelectSeq(b, LAMBDA c : ~IsBlank(c))

\* json::parse, on bodies without members: blanks are skipped
json_parse(b) ==
    LET t == StripBlanks(b) IN
    IF t = <<"{", "}">> THEN Ok([type |-> "object", members |-> <<>>])
    ELSE IF t = <<"[", "]">> THEN Ok([type |-> "array", members |-> <<>>])
    ELSE Err("unexpected end of JSON")

\* json_ld::RemoteDocument::new(doc, iri)
RemoteDocument_new(d, u) == [doc |-> d, url |-> u]

\* Error::InvalidContextLoaderEntry(format!(...)): what failed, the value named, the cause
InvalidContextLoaderEntry(what, value, cause) ==
    [error |-> "InvalidContextLoaderEntry", what |-> what, names |-> value,
     cause |-> cause]

\* HashMap::new()
HashMap_new == [k \in {} |-> None]

\* HashMap::insert: an occupied key takes the new value
HashMap_insert(m, k, v) ==
    [x \in DOMAIN m \cup {k} |-> IF x = k THEN v ELSE m[x]]

\* mutant: the flag is read the wrong way round
BaseLayer_inverted(disable) ==
    IF disable THEN [static_loader |-> TRUE, context_map |-> None]
    ELSE [static_loader |-> FALSE, context_map |-> None]

\* mutant: the base layer ignores the flag
BaseLayer_always_default(disable) ==
    [static_loader |-> TRUE, context_map |-> None]

\* if self.disable_default_contexts { ContextLoader::empty() } else { ContextLoader::default() }
BaseLayer(disable) ==
    IF disable THEN [static_loader |-> FALSE, context_map |-> None]
    ELSE [static_loader |-> TRUE, context_map |-> None]

\* mutant: the overlay replaces the base layer
with_context_map_replace(l, m) == [static_loader |-> FALSE, context_map |-> Some(m)]

\* context_loader.with_context_map(Arc::new(RwLock::new(context_map)))
with_context_map(l, m) == [l EXCEPT !.context_map = Some(m)]

CIdle ==
    /\ cpc = "idle"
    /\ copts = ContextLoaderOptions_default
    /\ context_loader = None
    /\ context_map = None
    /\ idx = 0
    /\ iri = None
    /\ doc_body = None
    /\ doc = None
    /\ reads = <<>>
    /\ returned = None
    /\ panic = None

RIdle ==
    /\ rpc = "idle"
    /\ ropts = ResolverOptions_default
    /\ resolvers = <<>>
    /\ chain = None

CInit ==
    /\ cpc = "l46"
    /\ copts \in ContextLoaderOptions
    /\ context_loader = None
    /\ context_map = None
    /\ idx = 0
    /\ iri = None
    /\ doc_body = None
    /\ doc = None
    /\ reads = <<>>
    /\ returned = None
    /\ panic = None

\* mutant: the loop body looks at the first entry on every iteration
Entry_first == copts.additional_contexts.val[1]

\* the entry the iterator is at
Entry == copts.additional_contexts.val[idx]

\* lines 46-50
SelectBase ==
    /\ cpc = "l46"
    /\ context_loader' = Some(BaseLayer(copts.disable_default_contexts))
    /\ cpc' = "l52"
    /\ UNCHANGED <<copts, context_map, idx, iri, doc_body, doc, reads, returned, panic>>
    /\ UNCHANGED rvars

\* lines 52-54 and 89: match &self.additional_contexts
MatchAdditional ==
    /\ cpc = "l52"
    /\ IF copts.additional_contexts.some
       THEN /\ context_map' = Some(HashMap_new)
            /\ idx' = 1
            /\ cpc' = "l55"
       ELSE /\ cpc' = "l92"
            /\ UNCHANGED <<context_map, idx>>
    /\ UNCHANGED <<copts, context_loader, iri, doc_body, doc, reads, returned, panic>>
    /\ UNCHANGED rvars

\* line 55: the iterator yields the next entry or ends the loop
ForNext ==
    /\ cpc = "l55"
    /\ cpc' = IF idx <= Len(copts.additional_contexts.val) THEN "l57" ELSE "l87"
    /\ UNCHANGED <<copts, context_loader, context_map, idx, iri, doc_body, doc,
                   reads, returned, panic>>
    /\ UNCHANGED rvars

\* lines 57-65: Iri::new(..).or_else(..).unwrap()
ParseIri ==
    /\ cpc = "l57"
    /\ LET r == Iri_new(Entry.iri) IN
       IF r.ok
       THEN /\ iri' = Some(r.val)
            /\ cpc' = "l67"
            /\ UNCHANGED panic
       ELSE /\ panic' = Some(InvalidContextLoaderEntry("invalid IRI", Entry.iri, r.err))
            /\ cpc' = "panicked"
            /\ UNCHANGED iri
    /\ UNCHANGED <<copts, context_loader, context_map, idx, doc_body, doc, reads, returned>>
    /\ UNCHANGED rvars

\* lines 67-75: read_to_string(..).or_else(..).unwrap()
ReadDocBody ==
    /\ cpc = "l67"
    /\ reads' = Append(reads, idx)
    /\ LET r == read_to_string(Entry.doc_body_file_path) IN
       IF r.ok
       THEN /\ doc_body' = Some(r.val)
            /\ cpc' = "l76"
            /\ UNCHANGED panic
       ELSE /\ panic' = Some(InvalidContextLoaderEntry("could not read doc body from path",
                                 Entry.doc_body_file_path, r.err))
            /\ cpc' = "panicked"
            /\ UNCHANGED doc_body
    /\ UNCHANGED <<copts, context_loader, context_map, idx, iri, doc, returned>>
    /\ UNCHANGED rvars

\* lines 76-84: json::parse(..).or_else(..).unwrap()
ParseDoc ==
    /\ cpc = "l76"
    /\ LET r == json_parse(doc_body.val) IN
       IF r.ok
       THEN /\ doc' = Some(r.val)
            /\ cpc' = "l85"
            /\ UNCHANGED panic
       ELSE /\ panic' = Some(InvalidContextLoaderEntry("invalid JSONLD context doc body at path",
                                 Entry.doc_body_file_path, r.err))
            /\ cpc' = "panicked"
            /\ UNCHANGED doc
    /\ UNCHANGED <<copts, context_loader, context_map, idx, iri, doc_body, reads, returned>>
    /\ UNCHANGED rvars

\* line 85: context_map.insert(iri.clone(), RemoteDocument::new(doc, iri)); the
\* locals of the iteration are dropped
InsertEntry ==
    /\ cpc = "l85"
    /\ context_map' = Some(HashMap_insert(context_map.val, Entry.iri,
                                           RemoteDocument_new(doc.val, iri.val)))
    /\ idx' = idx + 1
    /\ iri' = None
    /\ doc_body' = None
    /\ doc' = None
    /\ cpc' = "l55"
    /\ UNCHANGED <<copts, context_loader, reads, returned, panic>>
    /\ UNCHANGED rvars

\* line 87
WithContextMap ==
    /\ cpc = "l87"
    /\ context_loader' = Some(with_context_map(context_loader.val, context_map.val))
    /\ cpc' = "l92"
    /\ UNCHANGED <<copts, context_map, idx, iri, doc_body, doc, reads, returned, panic>>
    /\ UNCHANGED rvars

\* line 92
ReturnContextLoader ==
    /\ cpc = "l92"
    /\ returned' = context_loader
    /\ cpc' = "done"
    /\ UNCHANGED <<copts, context_loader, context_map, idx, iri, doc_body, doc, reads, panic>>
    /\ UNCHANGED rvars

-----------------------------------------------------------------------------
(* The finished loader, as its consumers see it                            *)

\* the built-in context documents of the static loader
DefaultContexts ==
    [u \in { <<"d", ":", "v">>, <<"d", ":", "w">> } |->
        RemoteDocument_new([type |-> "object", members |-> <<"builtin">>],
                           Iri_new(u).val)]

NotFound == [doc |-> "not found"]

\* every identifier a lookup may ask for
AllIris == CtxIris \cup DOMAIN DefaultContexts

\* load(identifier): the documents the loader may answer with; an identifier
\* held by both layers may be answered from either
Load(l, u) ==
    LET base == IF l.static_loader /\ u \in DOMAIN DefaultContexts
                THEN {DefaultContexts[u]} ELSE {}
        over == IF l.context_map.some /\ u \in DOMAIN l.context_map.val
                THEN {l.context_map.val[u]} ELSE {}
    IN IF base \cup over = {} THEN {NotFound} ELSE base \cup over

-----------------------------------------------------------------------------
(* Specifications                                                          *)

Init == CInit /\ RIdle

Next ==
    \/ SelectBase
    \/ MatchAdditional
    \/ ForNext
    \/ ParseIri
    \/ ReadDocBody
    \/ ParseDoc
    \/ InsertEntry
    \/ WithContextMap
    \/ ReturnContextLoader

Spec == Init /\ [][Next]_vars

ResolverInit == RInit /\ CIdle

ResolverNext ==
    \/ ParseResolverOptions
    \/ NewResolvers
    \/ PushFallback
    \/ InsertOverride
    \/ ReturnSeriesResolver

ResolverSpec == ResolverInit /\ [][ResolverNext]_vars

-----------------------------------------------------------------------------
(* Properties of to_resolver (checked under ResolverSpec)                  *)

Fallback == Borrow("did_resolver", ropts.did_resolver.val)

Override == Borrow("did_resolver_override", ropts.did_resolver_override.val)

Count(seq, x) == Cardinality({k \in 1..Len(seq) : seq[k] = x})

\* C1: the chain returned by to_resolver is [registry], [registry, fallback],
\* [override, registry] or [override, registry, fallback] according to which of
\* the two options are set, and holds the registry resolver exactly once.
C1_ChainOrder ==
    rpc = "done" =>
        /\ chain.some
        /\ Count(chain.val.resolvers, Registry) = 1
        /\ CASE ~ropts.did_resolver.some /\ ~ropts.did_resolver_override.some ->
                    chain.val.resolvers = <<Registry>>
             [] ropts.did_resolver.some /\ ~ropts.did_resolver_override.some ->
                    chain.val.resolvers = <<Registry, Fallback>>
             [] ~ropts.did_resolver.some /\ ropts.did_resolver_override.some ->
                    chain.val.resolvers = <<Override, Registry>>
             [] ropts.did_resolver.some /\ ropts.did_resolver_override.some ->
                    chain.val.resolvers = <<Override, Registry, Fallback>>

C1_Witness ==
    /\ rpc = "done"
    /\ ropts.did_resolver.some
    /\ ropts.did_resolver_override.some
    /\ ropts.did_resolver.val # ropts.did_resolver_override.val
    /\ Len(chain.val.resolvers) = 3

\* a string that parses as a resolver target: scheme ":" and a non-empty rest
\* without blanks
IsValidEndpoint(s) ==
    LET k == FirstColon(s, 1) IN
    /\ k >= 2
    /\ k < Len(s)
    /\ \A j \in 1..(k - 1) : s[j] \in Alpha
    /\ \A j \in (k + 1)..Len(s) : ~IsBlank(s[j])

\* C6: once the configuration has been parsed without failure, every endpoint
\* held by an option is a valid resolver target, and its resolver is in the
\* chain that to_resolver returns.
C6_EndpointsValidated ==
    rpc # "args" =>
        /\ ropts.did_resolver.some =>
              /\ IsValidEndpoint(ropts.did_resolver.val.endpoint)
              /\ rpc = "done" => Count(chain.val.resolvers, Fallback) = 1
        /\ ropts.did_resolver_override.some =>
              /\ IsValidEndpoint(ropts.did_resolver_override.val.endpoint)
              /\ rpc = "done" => Count(chain.val.resolvers, Override) = 1

-----------------------------------------------------------------------------
(* Properties of to_context_loader (checked under Spec)                    *)

Configured == copts.additional_contexts.some

Entries == copts.additional_contexts.val

Terminated == cpc \in {"done", "panicked"}

DuplicatedIris ==
    {Entries[k].iri : k \in {k \in 1..Len(Entries) :
                               \E j \in 1..(k - 1) : Entries[j].iri = Entries[k].iri}}

DistinctIris == Configured /\ DuplicatedIris = {}

Readable(k) == FS[Entries[k].doc_body_file_path].some

\* the document entry k stands for: its file's body parsed, under its IRI
Staged(k) ==
    RemoteDocument_new(json_parse(FS[Entries[k].doc_body_file_path].val).val,
                       Iri_new(Entries[k].iri).val)

\* entry k passes every step of the loop body
Passes(k) ==
    /\ Iri_new(Entries[k].iri).ok
    /\ Readable(k)
    /\ json_parse(FS[Entries[k].doc_body_file_path].val).ok

\* C2: a list with two entries of the same identifier, each entry valid on
\* its own, makes the call fail with a collision error naming that
\* identifier; no loader is returned.
C2_DuplicateRejected ==
    (Configured /\ DuplicatedIris # {} /\ Terminated
        /\ \A k \in 1..Len(Entries) : Passes(k)) =>
        /\ returned = None
        /\ panic.some
        /\ panic.val.what = "collision in additional-contexts identifier"
        /\ panic.val.names \in DuplicatedIris

\* C3: no failure of to_context_loader is a panic; the call ends by returning
\* to its caller.
C3_NoPanic == cpc # "panicked" /\ panic = None

\* C4 as stated: distinct (well-formed) identifiers and readable files are
\* enough for the call to succeed and for every identifier to resolve to its
\* file's contents, whatever the contents are.
C4_AsStated ==
    (DistinctIris /\ Terminated
        /\ \A k \in 1..Len(Entries) : Iri_new(Entries[k].iri).ok /\ Readable(k)) =>
        /\ cpc = "done"
        /\ returned.some
        /\ \A k \in 1..Len(Entries) : Load(returned.val, Entries[k].iri) = {Staged(k)}

\* C4 (amended): with distinct identifiers that are valid IRIs and readable
\* files that hold JSON, the call does not fail, and the returned loader's
\* context map holds for each identifier the document parsed from its file;
\* the loader resolves the identifier to that document unless an enabled base
\* layer holds the identifier too.
C4_DistinctValidStaged ==
    (DistinctIris /\ \A k \in 1..Len(Entries) : Passes(k)) =>
        /\ cpc # "panicked"
        /\ cpc = "done" =>
              /\ returned.some
              /\ returned.val.context_map.some
              /\ \A k \in 1..Len(Entries) :
                    /\ Entries[k].iri \in DOMAIN returned.val.context_map.val
                    /\ returned.val.context_map.val[Entries[k].iri] = Staged(k)
                    /\ (copts.disable_default_contexts
                            \/ Entries[k].iri \notin DOMAIN DefaultContexts)
                        => Load(returned.val, Entries[k].iri) = {Staged(k)}

C4_Witness ==
    /\ cpc = "done"
    /\ DistinctIris
    /\ Len(Entries) = 2
    /\ \A k \in 1..Len(Entries) : Passes(k)
    /\ Staged(1).doc # Staged(2).doc
    /\ Load(returned.val, Entries[2].iri) = {Staged(2)}

\* C5 as stated: an unreadable file in any entry makes the call fail with an
\* error naming that file's path, and no loader is returned.
C5_AsStated ==
    (Configured /\ Terminated) =>
        \A k \in 1..Len(Entries) :
            ~Readable(k) =>
                /\ returned = None
                /\ panic.some
                /\ panic.val.names = Entries[k].doc_body_file_path

\* entry k is the first entry that does not pass, and it fails on the read
FirstFailureIsRead(k) ==
    /\ \A j \in 1..(k - 1) : Passes(j)
    /\ Iri_new(Entries[k].iri).ok
    /\ ~Readable(k)

\* C5 (amended): an unreadable file in any entry makes the call fail and no
\* loader is returned; the failure is the read error naming that path when
\* the entry is the first one that fails and its identifier is a valid IRI.
C5_UnreadableFails ==
    Configured =>
        \A k \in 1..Len(Entries) :
            ~Readable(k) =>
                /\ cpc # "done"
                /\ returned = None
                /\ Terminated => panic.some
                /\ (Terminated /\ FirstFailureIsRead(k)) =>
                      /\ panic.val.error = "InvalidContextLoaderEntry"
                      /\ panic.val.what = "could not read doc body from path"
                      /\ panic.val.names = Entries[k].doc_body_file_path

C5_Witness ==
    /\ cpc = "panicked"
    /\ Configured
    /\ Len(Entries) = 2
    /\ Passes(1)
    /\ FirstFailureIsRead(2)
    /\ reads = <<1, 2>>
    /\ panic.val.names = Entries[2].doc_body_file_path

\* C7: with entries configured and the defaults enabled, the returned loader
\* resolves every configured identifier, and resolves every built-in
\* identifier that is not configured to its built-in document.
C7_DefaultsKept ==
    (cpc = "done" /\ Configured /\ ~copts.disable_default_contexts) =>
        /\ returned.some
        /\ \A k \in 1..Len(Entries) : NotFound \notin Load(returned.val, Entries[k].iri)
        /\ \A u \in DOMAIN DefaultContexts :
              u \notin {Entries[k].iri : k \in 1..Len(Entries)}
                  => Load(returned.val, u) = {DefaultContexts[u]}

C7_Witness ==
    /\ cpc = "done"
    /\ Configured
    /\ ~copts.disable_default_contexts
    /\ Len(Entries) = 2
    /\ \E u \in DOMAIN DefaultContexts :
          /\ u \notin {Entries[k].iri : k \in 1..Len(Entries)}
          /\ Load(returned.val, u) = {DefaultContexts[u]}

\* C8: with no entries configured no file is read, and the returned loader is
\* the base layer: exactly the built-in documents when the defaults are
\* enabled, the empty loader when they are disabled.
C8_BaseUnchanged ==
    ~Configured =>
        /\ reads = <<>>
        /\ cpc # "panicked"
        /\ cpc = "done" =>
              /\ returned.some
              /\ returned.val.context_map = None
              /\ returned.val.static_loader = ~copts.disable_default_contexts
              /\ \A u \in AllIris :
                    Load(returned.val, u) =
                        IF ~copts.disable_default_contexts /\ u \in DOMAIN DefaultContexts
                        THEN {DefaultContexts[u]} ELSE {NotFound}

C8_Witness ==
    /\ cpc = "done"
    /\ ~Configured
    /\ ~copts.disable_default_contexts
    /\ \E u \in AllIris : Load(returned.val, u) # {NotFound}

\* C9: with the defaults disabled and a present but empty list, the call does
\* not fail and the returned loader answers "not found" to every lookup.
C9_EmptyResolvesNothing ==
    (Configured /\ copts.disable_default_contexts /\ Len(Entries) = 0) =>
        /\ cpc # "panicked"
        /\ cpc = "done" =>
              /\ returned.some
              /\ \A u \in AllIris : Load(returned.val, u) = {NotFound}

C9_Witness ==
    /\ cpc = "done"
    /\ Configured
    /\ copts.disable_default_contexts
    /\ Len(Entries) = 0
    /\ returned.val.context_map = Some(HashMap_new)

\* C10: files are read in list order, the file of an entry whose identifier
\* was staged earlier in the pass is never read, and nothing is read after
\* the entry that fails.
C10_FailFastOrder ==
    Configured =>
        /\ \A n \in 1..Len(reads) : reads[n] = n
        /\ \A n \in 1..Len(reads) :
              ~\E j \in 1..(reads[n] - 1) : Entries[j].iri = Entries[reads[n]].iri
        /\ cpc = "panicked" => \A n \in 1..Len(reads) : reads[n] <= idx

=============================================================================
